---------------------------- MODULE Spec2Model ----------------------------
(***************************************************************************)
(* Model of the lobechat-memory-mcp bridges: the REST adapter              *)
(* (src/unnamed/part_000), the JSON-RPC over SSE adapter                   *)
(* (src/unnamed/part_001) and the three adapters of src/server.js (REST    *)
(* hybrid, stdio tool server, simplified tools/call HTTP server).          *)
(*                                                                         *)
(* JavaScript strings are sequences of one-character strings, so that      *)
(* toUpperCase, template literals, join and the property order of plain    *)
(* objects are computed the way the runtime computes them.                 *)
(***************************************************************************)
EXTENDS Integers, Sequences, FiniteSets

VARIABLES
    pc,          \* position of the handler of the current request: "idle", "await", "done"
    req,         \* the inbound request being handled
    calls,       \* upstream calls issued on behalf of the current request
    reply,       \* what the upstream answered to the current request's call
    res,         \* the response sent for the current request
    connections, \* part_001: the SSE registry, connection id -> response channel
    stream,      \* part_001: what has been written to each SSE response channel
    timer,       \* part_001: whether the keep-alive interval of a channel is armed
    phase,       \* part_001: "new", "open" or "closed" for each SSE client
    connId,      \* part_001: the connectionId captured by each /sse handler
    clock        \* Date.now() in milliseconds

vars == <<pc, req, calls, reply, res, connections, stream, timer, phase, connId, clock>>
reqVars == <<pc, req, calls, reply, res>>
sseVars == <<connections, stream, timer, phase, connId, clock>>

-----------------------------------------------------------------------------
(* Bounds of the model.                                                    *)

\* longest upstream batch handed to the summary builders
MaxBatch == 3
\* longest upstream batch handed to the other operations
MaxListed == 1
\* number of clients that open an SSE connection
MaxClients == 2
\* number of keep-alive comments one connection is sent
MaxKeepAlives == 2
\* last millisecond Date.now() reaches
MaxClock == 1

-----------------------------------------------------------------------------
(* JavaScript strings.                                                     *)

LowerCase == <<"a","b","c","d","e","f","g","h","i","j","k","l","m",
               "n","o","p","q","r","s","t","u","v","w","x","y","z">>
UpperCase == <<"A","B","C","D","E","F","G","H","I","J","K","L","M",
               "N","O","P","Q","R","S","T","U","V","W","X","Y","Z">>
Digits == <<"0","1","2","3","4","5","6","7","8","9">>

toUpperCaseChar(c) ==
    IF \E i \in 1..Len(LowerCase) : LowerCase[i] = c
    THEN UpperCase[CHOOSE i \in 1..Len(LowerCase) : LowerCase[i] = c]
    ELSE c

\* String.prototype.toUpperCase
toUpperCase(s) == [i \in 1..Len(s) |-> toUpperCaseChar(s[i])]

IsDigit(c) == \E i \in 1..Len(Digits) : Digits[i] = c
DigitVal(c) == (CHOOSE i \in 1..Len(Digits) : Digits[i] = c) - 1

\* a < b for two digit strings of the same length
RECURSIVE DigitsLess(_, _)
DigitsLess(a, b) ==
    IF a = <<>> THEN FALSE
    ELSE IF DigitVal(Head(a)) # DigitVal(Head(b))
         THEN DigitVal(Head(a)) < DigitVal(Head(b))
         ELSE DigitsLess(Tail(a), Tail(b))

\* numeric order of two canonical numerals
NumeralLess(a, b) ==
    \/ Len(a) < Len(b)
    \/ Len(a) = Len(b) /\ DigitsLess(a, b)

\* the largest array index, 2^32 - 2
MaxArrayIndex == <<"4","2","9","4","9","6","7","2","9","4">>

\* ECMAScript "array index" property keys: canonical numerals up to 2^32 - 2
IsArrayIndex(k) ==
    /\ Len(k) > 0
    /\ \A i \in 1..Len(k) : IsDigit(k[i])
    /\ (Len(k) = 1 \/ k[1] # "0")
    /\ ~NumeralLess(MaxArrayIndex, k)

\* String(n) for a non-negative integer
RECURSIVE NumToStr(_)
NumToStr(n) ==
    IF n < 10 THEN <<Digits[n + 1]>>
    ELSE NumToStr(n \div 10) \o <<Digits[(n % 10) + 1]>>

\* Array.prototype.join
RECURSIVE Join(_, _)
Join(parts, sep) ==
    IF parts = <<>> THEN <<>>
    ELSE IF Len(parts) = 1 THEN parts[1]
    ELSE parts[1] \o sep \o Join(Tail(parts), sep)

Undefined == <<"u","n","d","e","f","i","n","e","d">>

-----------------------------------------------------------------------------
(* Plain objects used as dictionaries: `const byCategory = {}`.             *)
(* An object is the sequence of its own properties in creation order, each *)
(* [key, facts].                                                           *)

\* names every plain object inherits from Object.prototype
ObjectPrototypeKeys ==
    { <<"c","o","n","s","t","r","u","c","t","o","r">>,
      <<"t","o","S","t","r","i","n","g">>,
      <<"t","o","L","o","c","a","l","e","S","t","r","i","n","g">>,
      <<"v","a","l","u","e","O","f">>,
      <<"h","a","s","O","w","n","P","r","o","p","e","r","t","y">>,
      <<"i","s","P","r","o","t","o","t","y","p","e","O","f">>,
      <<"p","r","o","p","e","r","t","y","I","s","E","n","u","m","e","r","a","b","l","e">>,
      <<"_","_","p","r","o","t","o","_","_">>,
      <<"_","_","d","e","f","i","n","e","G","e","t","t","e","r","_","_">>,
      <<"_","_","d","e","f","i","n","e","S","e","t","t","e","r","_","_">>,
      <<"_","_","l","o","o","k","u","p","G","e","t","t","e","r","_","_">>,
      <<"_","_","l","o","o","k","u","p","S","e","t","t","e","r","_","_">> }

HasOwn(obj, k) == \E i \in 1..Len(obj) : obj[i].key = k
OwnIndex(obj, k) == CHOOSE i \in 1..Len(obj) : obj[i].key = k

\* mem.category and mem.content, `undefined` when the field is missing
CategoryKey(mem) == IF "category" \in DOMAIN mem THEN mem.category ELSE Undefined
ContentOf(mem) == IF "content" \in DOMAIN mem THEN mem.content ELSE Undefined

\* one turn of the grouping loop:
\*   if (!byCategory[mem.category]) byCategory[mem.category] = [];
\*   byCategory[mem.category].push(mem.content);
\* g.ok is FALSE once push has thrown a TypeError (the key names an inherited
\* property, which is truthy and has no push)
GroupOne(g, mem) ==
    LET k == CategoryKey(mem) IN
    IF ~g.ok THEN g
    ELSE IF HasOwn(g.obj, k)
    THEN [g EXCEPT !.obj[OwnIndex(g.obj, k)].facts = Append(@, ContentOf(mem))]
    ELSE IF k \in ObjectPrototypeKeys
    THEN [g EXCEPT !.ok = FALSE]
    ELSE [g EXCEPT !.obj = Append(@, [key |-> k, facts |-> <<ContentOf(mem)>>])]

\* for (const mem of memories) { ... }
RECURSIVE GroupFrom(_, _)
GroupFrom(g, memories) ==
    IF memories = <<>> THEN g
    ELSE GroupFrom(GroupOne(g, Head(memories)), Tail(memories))

GroupByCategory(memories) == GroupFrom([ok |-> TRUE, obj |-> <<>>], memories)

\* insert e in a sequence of index-keyed entries sorted in ascending numeric order
RECURSIVE InsertByIndex(_, _)
InsertByIndex(sorted, e) ==
    IF sorted = <<>> THEN <<e>>
    ELSE IF NumeralLess(e.key, Head(sorted).key)
         THEN <<e>> \o sorted
         ELSE <<Head(sorted)>> \o InsertByIndex(Tail(sorted), e)

RECURSIVE SortByIndex(_)
SortByIndex(es) ==
    IF es = <<>> THEN <<>>
    ELSE InsertByIndex(SortByIndex(Tail(es)), Head(es))

IsIndexEntry(e) == IsArrayIndex(e.key)
IsStringEntry(e) == ~IsArrayIndex(e.key)

\* Object.entries: OrdinaryOwnPropertyKeys lists the array-index keys in
\* ascending numeric order, then the other string keys in creation order
ObjectEntries(obj) ==
    SortByIndex(SelectSeq(obj, IsIndexEntry)) \o SelectSeq(obj, IsStringEntry)

\* facts.map(f => `- ${f}`).join('\n')
FactLines(facts) == Join([i \in 1..Len(facts) |-> <<"-"," ">> \o facts[i]], <<"\n">>)

\* ([cat, facts]) => `${cat.toUpperCase()}:\n${...}`
RenderGroup(e) == toUpperCase(e.key) \o <<":","\n">> \o FactLines(e.facts)

\* Object.entries(byCategory).map(...).join('\n\n')
SummaryBodySingleNewline(obj) ==
    LET es == ObjectEntries(obj)
    IN  Join([i \in 1..Len(es) |-> RenderGroup(es[i])], <<"\n">>)
SummaryBody(obj) ==
    LET es == ObjectEntries(obj)
    IN  Join([i \in 1..Len(es) |-> RenderGroup(es[i])], <<"\n","\n">>)


-----------------------------------------------------------------------------
(* The upstream memory API and the inputs of the model.                    *)

UserIds == { <<"u","1">> }
Categories == { <<"w","o","r","k">>, <<"p","r","e","f","s">>, <<"2">>, <<"1","0">> }
Contents == { <<"u","s","e","s"," ","G","o">>,
              <<"l","i","k","e","s"," ","d","a","r","k"," ","m","o","d","e">>,
              <<"r","e","m","o","t","e">> }
\* records a summary builder does not expect: a category that names a
\* property every object inherits, a record with no category, one with no content
OddRecords ==
    { [category |-> <<"c","o","n","s","t","r","u","c","t","o","r">>,
       content |-> <<"r","e","m","o","t","e">>],
      [content |-> <<"r","e","m","o","t","e">>],
      [category |-> <<"w","o","r","k">>] }
MemoryRecords == [category : Categories, content : Contents] \cup OddRecords

Batches(n) == UNION { [1..k -> MemoryRecords] : k \in 0..n }

\* a 200 answer {count, memories}; count is advisory and may exceed the list
BatchBodies(n) ==
    { [count |-> Len(b) + d, memories |-> b] : b \in Batches(n), d \in {0, 1} }

\* the same with the count the upstream normally sends, the length of the list
ExactBatchBodies(n) == { [count |-> Len(b), memories |-> b] : b \in Batches(n) }

\* a batch that carries no count
NoCountBodies(n) == { [memories |-> b] : b \in Batches(n) }

\* a JSON body that is no batch, as an upstream error page would send
ErrorBody == [error |-> "upstream failure"]

\* what fetch() and response.json() can meet
SummaryReplies ==
    { [kind |-> "json", status |-> 200, data |-> d] : d \in ExactBatchBodies(MaxBatch) }
Replies ==
    { [kind |-> "throw"] }
    \cup { [kind |-> "text", status |-> st] : st \in {200, 502} }
    \cup { [kind |-> "json", status |-> st, data |-> d] :
             st \in {200, 500},
             d \in BatchBodies(MaxListed) \cup NoCountBodies(MaxListed) \cup {ErrorBody} }

\* await fetch(url); await response.json(): the status is never looked at
FetchJson(answer) ==
    IF answer.kind = "throw" THEN [ok |-> FALSE, message |-> <<"fetch failed">>]
    ELSE IF answer.kind = "text" THEN [ok |-> FALSE, message |-> <<"invalid json">>]
    ELSE [ok |-> TRUE, data |-> answer.data]

\* data.memories || []   and   data.count || 0
MemoriesOrEmpty(data) == IF "memories" \in DOMAIN data THEN data.memories ELSE <<>>
CountOrZero(data) == IF "count" \in DOMAIN data THEN data.count ELSE 0

\* encodeURIComponent: unreserved characters stay, the others are escaped
Unreserved(c) ==
    \/ \E i \in 1..Len(LowerCase) : LowerCase[i] = c \/ UpperCase[i] = c
    \/ IsDigit(c)
    \/ c \in {"-", "_", ".", "!", "~", "*", "'", "(", ")"}
PercentCode(c) ==
    IF c = " " THEN <<"%","2","0">>
    ELSE IF c = "&" THEN <<"%","2","6">>
    ELSE IF c = "=" THEN <<"%","3","D">>
    ELSE <<"%","3","F">>
RECURSIVE encodeURIComponent(_)
encodeURIComponent(s) ==
    IF s = <<>> THEN <<>>
    ELSE (IF Unreserved(Head(s)) THEN <<Head(s)>> ELSE PercentCode(Head(s)))
         \o encodeURIComponent(Tail(s))

\* `${MEMORY_API_BASE}/api/recent?user_id=${userId}&limit=${limit}`
RecentUrl(userId, limit) == [path |-> "/api/recent", user_id |-> userId, limit |-> limit]
\* `${MEMORY_API_BASE}/api/search?q=${q}&user_id=${userId}`
SearchUrl(q, userId) == [path |-> "/api/search", q |-> q, user_id |-> userId]

SummaryLimit == 50
DefaultLimit == 20

-----------------------------------------------------------------------------
(* Request handling: what every handler does with its position.            *)

NoReq == [handler |-> "none"]
NoRes == [sent |-> FALSE]
NoReply == [kind |-> "none"]

\* the handler reaches `await fetch(url)`
Fetch(r, url) ==
    /\ req' = r
    /\ calls' = <<url>>
    /\ reply' = NoReply
    /\ res' = NoRes
    /\ pc' = "await"
    /\ UNCHANGED sseVars

\* the handler answers before any await
Answer(r, response) ==
    /\ req' = r
    /\ calls' = <<>>
    /\ reply' = NoReply
    /\ res' = response
    /\ pc' = "done"
    /\ UNCHANGED sseVars

\* the handler answers after its await, calling the upstream once more when
\* the first call threw
FinishRetrying(answer, response) ==
    /\ reply' = answer
    /\ res' = response
    /\ pc' = "done"
    /\ calls' = IF answer.kind = "throw" THEN calls \o calls ELSE calls
    /\ UNCHANGED req
    /\ UNCHANGED sseVars

\* the handler answers after its await
Finish(answer, response) ==
    /\ reply' = answer
    /\ res' = response
    /\ pc' = "done"
    /\ UNCHANGED <<req, calls>>
    /\ UNCHANGED sseVars

Http(status, body) == [sent |-> TRUE, status |-> status, body |-> body]

\* the summary block of a batch, or the TypeError the grouping loop throws
BuildSummary(memories) ==
    LET g == GroupByCategory(memories)
    IN  IF g.ok THEN [ok |-> TRUE, text |-> SummaryBody(g.obj)]
        ELSE [ok |-> FALSE, message |-> <<"byCategory[mem.category].push is not a function">>]

NoMemoriesFound == <<"N","o"," ","m","e","m","o","r","i","e","s"," ","f","o","u","n","d">>

\* summary || 'No memories found'
SummaryOrNone(text) == IF text = <<>> THEN NoMemoriesFound ELSE text

-----------------------------------------------------------------------------
(* src/unnamed/part_000: the REST adapter.                                 *)

\* ?limit=... of the caller
Limits == { <<"5">> }

RestRequests(h, extra) ==
    { [handler |-> h, userId |-> u] : u \in UserIds }
    \cup { [handler |-> h, userId |-> u, arg |-> a] : u \in UserIds, a \in extra }

\* catch (error) { res.status(500).json({ success: false, error: error.message }) }
RestCatch(message) == Http(500, [success |-> FALSE, error |-> message])

\* src/server.js: catch (error) { res.status(500).json({ error: error.message }) }
HybridCatch(message) == Http(500, [error |-> message])

\* the catch block of the adapter the route belongs to
Catch(adapter, message) ==
    IF adapter = "rest" THEN RestCatch(message) ELSE HybridCatch(message)

\* the try block of GET /api/summary/:userId after the fetch
SummaryResponse(f, adapter) ==
    IF ~f.ok THEN Catch(adapter, f.message)
    ELSE LET s == BuildSummary(MemoriesOrEmpty(f.data))
         IN  IF ~s.ok THEN Catch(adapter, s.message)
             ELSE Http(200, [success |-> TRUE,
                             summary |-> SummaryOrNone(s.text),
                             totalMemories |-> CountOrZero(f.data)])

\* the try block of GET /api/search/:userId after the fetch
SearchResponse(f, q, adapter) ==
    IF ~f.ok THEN Catch(adapter, f.message)
    ELSE Http(200, [success |-> TRUE, query |-> q,
                    count |-> CountOrZero(f.data),
                    memories |-> MemoriesOrEmpty(f.data)])

\* the try block of GET /api/memories/:userId after the fetch
MemoriesResponse(f, adapter) ==
    IF ~f.ok THEN Catch(adapter, f.message)
    ELSE Http(200, [success |-> TRUE,
                    count |-> CountOrZero(f.data),
                    memories |-> MemoriesOrEmpty(f.data)])

\* GET /api/summary/:userId
RestSummary ==
    /\ pc # "await"
    /\ \E r \in RestRequests("rest.summary", Limits) :
         Fetch(r, RecentUrl(r.userId, NumToStr(SummaryLimit)))

RestSummaryDone(replies) ==
    /\ pc = "await" /\ req.handler = "rest.summary"
    /\ \E answer \in replies : Finish(answer, SummaryResponse(FetchJson(answer), "rest"))

Queries == { <<>>, <<"g","o">>, <<"a"," ","b">> }

\* GET /api/search/:userId: `if (!q) return res.status(400)...`
RestSearch ==
    /\ pc # "await"
    /\ \E r \in RestRequests("rest.search", Queries) :
         IF "arg" \notin DOMAIN r \/ r.arg = <<>>
         THEN Answer(r, Http(400, [success |-> FALSE,
                                   error |-> <<"Missing query parameter: q">>]))
         ELSE Fetch(r, SearchUrl(encodeURIComponent(r.arg), r.userId))

RestSearchDone(replies) ==
    /\ pc = "await" /\ req.handler = "rest.search"
    /\ \E answer \in replies :
         Finish(answer, SearchResponse(FetchJson(answer), req.arg, "rest"))

\* const { limit = 20 } = req.query
LimitOrDefault(r) == IF "arg" \in DOMAIN r THEN r.arg ELSE NumToStr(DefaultLimit)

\* GET /api/memories/:userId
RestMemories ==
    /\ pc # "await"
    /\ \E r \in RestRequests("rest.memories", Limits) :
         Fetch(r, RecentUrl(r.userId, LimitOrDefault(r)))

RestMemoriesDone(replies) ==
    /\ pc = "await" /\ req.handler = "rest.memories"
    /\ \E answer \in replies : Finish(answer, MemoriesResponse(FetchJson(answer), "rest"))

-----------------------------------------------------------------------------
(* src/server.js, lines 1-309: the REST hybrid adapter.                    *)

\* GET /api/summary/:userId
HybridSummary ==
    /\ pc # "await"
    /\ \E r \in RestRequests("hybrid.summary", Limits) :
         Fetch(r, RecentUrl(r.userId, NumToStr(SummaryLimit)))

HybridSummaryDone(replies) ==
    /\ pc = "await" /\ req.handler = "hybrid.summary"
    /\ \E answer \in replies : Finish(answer, SummaryResponse(FetchJson(answer), "hybrid"))

\* String(q) for the q of req.query
QueryText(r) == IF "arg" \in DOMAIN r THEN r.arg ELSE Undefined

\* GET /api/search/:userId: q goes to the upstream unchecked
HybridSearch ==
    /\ pc # "await"
    /\ \E r \in RestRequests("hybrid.search", Queries) :
         Fetch(r, SearchUrl(encodeURIComponent(QueryText(r)), r.userId))

\* res.json drops `query` when q is undefined
HybridSearchDone(replies) ==
    /\ pc = "await" /\ req.handler = "hybrid.search"
    /\ \E answer \in replies :
         LET f == FetchJson(answer)
         IN  IF "arg" \in DOMAIN req
             THEN Finish(answer, SearchResponse(f, req.arg, "hybrid"))
             ELSE Finish(answer, MemoriesResponse(f, "hybrid"))

\* GET /api/memories/:userId
HybridMemories ==
    /\ pc # "await"
    /\ \E r \in RestRequests("hybrid.memories", Limits) :
         Fetch(r, RecentUrl(r.userId, LimitOrDefault(r)))

HybridMemoriesDone(replies) ==
    /\ pc = "await" /\ req.handler = "hybrid.memories"
    /\ \E answer \in replies : Finish(answer, MemoriesResponse(FetchJson(answer), "hybrid"))

-----------------------------------------------------------------------------
(* JSON-RPC and tool-call inputs.                                          *)

ToolNames == { "get_user_memories", "search_memories", "get_memory_summary",
               "delete_memory" }
KnownTools == { "get_user_memories", "search_memories", "get_memory_summary" }

ToolArgs ==
    { [user_id |-> u] : u \in UserIds }
    \cup { [user_id |-> u, query |-> q] : u \in UserIds, q \in Queries }
    \cup { [user_id |-> u, limit |-> 5] : u \in UserIds }

\* {name, arguments}, with `arguments` or `name` left out by some callers
ToolCalls ==
    { [name |-> n] : n \in ToolNames }
    \cup { [name |-> n, arguments |-> a] : n \in ToolNames, a \in ToolArgs }
    \cup { [arguments |-> a] : a \in ToolArgs }

\* const { name, arguments: args } = ...: name is undefined when left out
NameOf(c) == IF "name" \in DOMAIN c THEN c.name ELSE "undefined"

SummaryToolCalls ==
    { [name |-> "get_memory_summary", arguments |-> [user_id |-> u]] : u \in UserIds }

RequestIds == { 0, 7 }

\* JSON-RPC requests {jsonrpc, id, method, params}
RpcBodies ==
    { [id |-> i, method |-> m] :
        i \in RequestIds,
        m \in {"initialize", "tools/list", "resources/list", "tools/call"} }
    \cup { [id |-> i, method |-> "tools/call", params |-> c] :
             i \in RequestIds, c \in ToolCalls }

SummaryRpcBodies ==
    { [id |-> 7, method |-> "tools/call", params |-> c] : c \in SummaryToolCalls }

\* JSON-RPC "internal error"
InternalError == -32603

RpcResult(id, result) == Http(200, [jsonrpc |-> "2.0", id |-> id, result |-> result])
RpcError(id, message) ==
    Http(200, [jsonrpc |-> "2.0", id |-> id,
               error |-> [code |-> InternalError, message |-> message]])

InitializeResult == [protocolVersion |-> "1.0", capabilities |-> "tools"]
ToolsListResult == [tools |-> KnownTools]

\* String(args.user_id), String(args.query)
UserIdText(args) == IF "user_id" \in DOMAIN args THEN args.user_id ELSE Undefined
QueryArgText(args) == IF "query" \in DOMAIN args THEN args.query ELSE Undefined
\* const { limit } = args, with the default forgotten and the caller's limit dropped
LimitArgTextDropped(args) == NumToStr(DefaultLimit)

\* const { limit = 20 } = args
LimitArgText(args) ==
    IF "limit" \in DOMAIN args THEN NumToStr(args.limit) ELSE NumToStr(DefaultLimit)

\* { type: 'text', text: JSON.stringify(data.memories, null, 2) }: the text
\* is undefined, and dropped from the reply, when data has no memories
MemoriesText(data) ==
    IF "memories" \in DOMAIN data
    THEN <<[type |-> "text", text |-> [json |-> data.memories]]>>
    ELSE <<[type |-> "text"]>>

TextContent(text) == <<[type |-> "text", text |-> text]>>

SummaryHeader ==
    <<"U","s","e","r"," ","M","e","m","o","r","y"," ","S","u","m","m","a","r","y",":","\n","\n">>
TotalMemoriesLine == <<"\n","\n","T","o","t","a","l"," ","m","e","m","o","r","i","e","s",":"," ">>

-----------------------------------------------------------------------------
(* src/unnamed/part_001: POST /message.                                    *)

\* the upstream call of a known tool
MessageUrl(name, args) ==
    IF name = "get_user_memories" THEN RecentUrl(UserIdText(args), LimitArgText(args))
    ELSE IF name = "search_memories"
    THEN SearchUrl(encodeURIComponent(QueryArgText(args)), UserIdText(args))
    ELSE RecentUrl(UserIdText(args), NumToStr(SummaryLimit))

\* the handler up to its first await, or to its answer
MessagePost(bodies) ==
    /\ pc # "await"
    /\ \E b \in bodies :
         LET r == [handler |-> "sse.message", body |-> b] IN
         IF b.method = "initialize" THEN Answer(r, RpcResult(b.id, InitializeResult))
         ELSE IF b.method = "tools/list" THEN Answer(r, RpcResult(b.id, ToolsListResult))
         ELSE IF b.method = "tools/call"
         THEN IF "params" \notin DOMAIN b
              THEN Answer(r, RpcError(b.id, <<"Cannot destructure property 'name'">>))
              ELSE IF NameOf(b.params) \in KnownTools
              THEN IF "arguments" \notin DOMAIN b.params
                   THEN Answer(r, RpcError(b.id, <<"Cannot destructure property 'user_id'">>))
                   ELSE Fetch(r, MessageUrl(NameOf(b.params), b.params.arguments))
              ELSE Answer(r, RpcError(b.id, <<"Unknown tool: ", NameOf(b.params)>>))
         ELSE Answer(r, RpcError(b.id, <<"Unknown method: ", b.method>>))

\* `User Memory Summary:\n\n${...}\n\nTotal memories: ${data.count || 0}`
MessageSummaryText(body, data) ==
    SummaryHeader \o body \o TotalMemoriesLine \o NumToStr(CountOrZero(data))

\* the tool branches after the fetch, and the catch block
MessageResult(id, name, f) ==
    IF ~f.ok THEN RpcError(id, f.message)
    ELSE IF name = "get_memory_summary"
    THEN LET s == BuildSummary(MemoriesOrEmpty(f.data))
         IN  IF ~s.ok THEN RpcError(id, s.message)
             ELSE RpcResult(id, [content |->
                      TextContent(MessageSummaryText(s.text, f.data))])
    ELSE RpcResult(id, [content |-> MemoriesText(f.data)])

\* the handler answers 202 and writes the JSON-RPC response to every
\* registered SSE connection, as a transport that routes over SSE would
MessageDoneBroadcast(replies) ==
    /\ pc = "await" /\ req.handler = "sse.message"
    /\ \E answer \in replies :
         /\ reply' = answer
         /\ res' = IF DOMAIN connections = {}
                   THEN MessageResult(req.body.id, req.body.params.name, FetchJson(answer))
                   ELSE Http(202, [accepted |-> TRUE])
         /\ stream' = [c \in DOMAIN stream |->
                         IF \E id \in DOMAIN connections : connections[id] = c
                         THEN Append(stream[c], "data: response")
                         ELSE stream[c]]
         /\ pc' = "done"
         /\ UNCHANGED <<req, calls, connections, timer, phase, connId, clock>>

MessageDone(replies) ==
    /\ pc = "await" /\ req.handler = "sse.message"
    /\ \E answer \in replies :
         Finish(answer, MessageResult(req.body.id, req.body.params.name, FetchJson(answer)))

-----------------------------------------------------------------------------
(* src/server.js, lines 35-53: POST / of the REST hybrid adapter.          *)

\* every body is answered as an initialize request; id: req.body.id || 1
RootPost(bodies) ==
    /\ pc # "await"
    /\ \E b \in bodies :
         Answer([handler |-> "hybrid.root", body |-> b],
                RpcResult(IF b.id = 0 THEN 1 ELSE b.id, InitializeResult))

-----------------------------------------------------------------------------
(* src/server.js, lines 390-482: the stdio tool server.                    *)

Returned(result) == [sent |-> TRUE, result |-> result]

\* a result with isError: true
StdioError(text) == Returned([content |-> TextContent(text), isError |-> TRUE])

\* catch (error) { return { content: [{ text: `Error: ${error.message}` }], isError: true } }
StdioCatch(message) == StdioError(<<"Error: ">> \o message)

\* q is not URL-encoded here
StdioUrl(name, args) ==
    IF name = "get_user_memories" THEN RecentUrl(UserIdText(args), LimitArgText(args))
    ELSE IF name = "search_memories" THEN SearchUrl(QueryArgText(args), UserIdText(args))
    ELSE RecentUrl(UserIdText(args), NumToStr(SummaryLimit))

StdioCall(requests) ==
    /\ pc # "await"
    /\ \E c \in requests :
         LET r == [handler |-> "stdio.call", body |-> c] IN
         IF NameOf(c) \in KnownTools
         THEN IF "arguments" \notin DOMAIN c
              THEN Answer(r, StdioCatch(<<"Cannot destructure property 'user_id'">>))
              ELSE Fetch(r, StdioUrl(c.name, c.arguments))
         ELSE Answer(r, StdioError(<<"Unknown tool: ", NameOf(c)>>))

StdioSummaryHeader ==
    <<"\n","U","s","e","r"," ","M","e","m","o","r","y"," ","S","u","m","m","a","r","y"," ","f","o","r"," ">>
StdioSummaryTail == <<"\n"," "," "," "," "," "," ">>

\* String(data.count)
CountText(data) == IF "count" \in DOMAIN data THEN NumToStr(data.count) ELSE Undefined

StdioSummaryText(userId, body, data) ==
    StdioSummaryHeader \o userId \o <<":","\n","\n">> \o body
        \o TotalMemoriesLine \o CountText(data) \o StdioSummaryTail

\* `for (const mem of data.memories)` throws when data has no memories
StdioResult(name, args, f) ==
    IF ~f.ok THEN StdioCatch(f.message)
    ELSE IF name = "get_memory_summary"
    THEN IF "memories" \notin DOMAIN f.data
         THEN StdioCatch(<<"data.memories is not iterable">>)
         ELSE LET s == BuildSummary(f.data.memories)
              IN  IF ~s.ok THEN StdioCatch(s.message)
                  ELSE Returned([content |-> TextContent(
                           StdioSummaryText(UserIdText(args), s.text, f.data))])
    ELSE Returned([content |-> MemoriesText(f.data)])

StdioCallDone(replies) ==
    /\ pc = "await" /\ req.handler = "stdio.call"
    /\ \E answer \in replies :
         Finish(answer, StdioResult(req.body.name, req.body.arguments, FetchJson(answer)))

-----------------------------------------------------------------------------
(* src/server.js, lines 601-719: POST /tools/call and POST /api/tools.     *)

\* catch (error) { res.status(500).json({ error: error.message }) }
ToolsCallCatch(message) == Http(500, [error |-> message])

\* the handler without its final else: an unknown name reaches res.json(result)
ToolsCallNoElse(bodies) ==
    /\ pc # "await"
    /\ \E c \in bodies :
         LET r == [handler |-> "simple.call", body |-> c] IN
         IF NameOf(c) \in KnownTools
         THEN IF "arguments" \notin DOMAIN c
              THEN Answer(r, ToolsCallCatch(<<"Cannot destructure property 'user_id'">>))
              ELSE Fetch(r, MessageUrl(c.name, c.arguments))
         ELSE Answer(r, Http(200, [success |-> TRUE]))
ToolsCall(bodies) ==
    /\ pc # "await"
    /\ \E c \in bodies :
         LET r == [handler |-> "simple.call", body |-> c] IN
         IF NameOf(c) \in KnownTools
         THEN IF "arguments" \notin DOMAIN c
              THEN Answer(r, ToolsCallCatch(<<"Cannot destructure property 'user_id'">>))
              ELSE Fetch(r, MessageUrl(c.name, c.arguments))
         ELSE Answer(r, ToolsCallCatch(<<"Unknown tool: ", NameOf(c)>>))

TotalLine == <<"\n","\n","T","o","t","a","l",":"," ">>
MemoriesWord == <<" ","m","e","m","o","r","i","e","s">>

\* `User Memory Summary:\n\n${...}\n\nTotal: ${data.count || 0} memories`
ToolsCallSummaryText(body, data) ==
    SummaryHeader \o body \o TotalLine \o NumToStr(CountOrZero(data)) \o MemoriesWord

\* (data.memories || []).map(m => `- [${m.category}] ${m.content}`).join('\n')
MemoryLines(memories) ==
    Join([i \in 1..Len(memories) |->
            <<"-"," ","[">> \o CategoryKey(memories[i]) \o <<"]"," ">>
                \o ContentOf(memories[i])],
         <<"\n">>)

\* `Found ${data.count || 0} memories:\n\n${...}`, `Recent ${...} memories:\n\n${...}`
ListingText(word, data) ==
    word \o <<" ">> \o NumToStr(CountOrZero(data)) \o MemoriesWord
        \o <<":","\n","\n">> \o MemoryLines(MemoriesOrEmpty(data))

ToolsCallResult(name, f) ==
    IF ~f.ok THEN ToolsCallCatch(f.message)
    ELSE IF name = "get_memory_summary"
    THEN LET s == BuildSummary(MemoriesOrEmpty(f.data))
         IN  IF ~s.ok THEN ToolsCallCatch(s.message)
             ELSE Http(200, [content |-> ToolsCallSummaryText(s.text, f.data)])
    ELSE IF name = "search_memories"
    THEN Http(200, [content |-> ListingText(<<"F","o","u","n","d">>, f.data)])
    ELSE Http(200, [content |-> ListingText(<<"R","e","c","e","n","t">>, f.data)])

ToolsCallDone(replies) ==
    /\ pc = "await" /\ req.handler = "simple.call"
    /\ \E answer \in replies : Finish(answer, ToolsCallResult(req.body.name, FetchJson(answer)))

SummaryActions == { "get_memory_summary", "getMemorySummary" }

\* {action, params} of POST /api/tools
ApiToolsBodies ==
    { [action |-> a] : a \in SummaryActions \cup {"search_memories", "forget"} }
    \cup { [action |-> a, params |-> [user_id |-> u]] :
             a \in SummaryActions \cup {"search_memories", "forget"}, u \in UserIds }
    \cup { [action |-> a, params |-> [userId |-> u]] : a \in SummaryActions, u \in UserIds }

SummaryApiToolsBodies ==
    { [action |-> a, params |-> [user_id |-> u]] : a \in SummaryActions, u \in UserIds }

\* const uid = user_id || userId
ApiToolsUid(params) ==
    IF "user_id" \in DOMAIN params THEN params.user_id
    ELSE IF "userId" \in DOMAIN params THEN params.userId
    ELSE Undefined

\* catch (error) { res.status(500).json({ success: false, error: error.message }) }
ApiToolsCatch(message) == Http(500, [success |-> FALSE, error |-> message])

\* the handler has one branch; any other action leaves `result` undefined
\* and reaches res.json({ success: true, data: result })
ApiTools(bodies) ==
    /\ pc # "await"
    /\ \E b \in bodies :
         LET r == [handler |-> "simple.apitools", body |-> b] IN
         IF b.action \in SummaryActions
         THEN IF "params" \notin DOMAIN b
              THEN Answer(r, ApiToolsCatch(<<"Cannot destructure property 'user_id'">>))
              ELSE Fetch(r, RecentUrl(ApiToolsUid(b.params), NumToStr(SummaryLimit)))
         ELSE Answer(r, Http(200, [success |-> TRUE]))

ApiToolsResult(f) ==
    IF ~f.ok THEN ApiToolsCatch(f.message)
    ELSE LET s == BuildSummary(MemoriesOrEmpty(f.data))
         IN  IF ~s.ok THEN ApiToolsCatch(s.message)
             ELSE Http(200, [success |-> TRUE, data |-> s.text])

ApiToolsDone(replies) ==
    /\ pc = "await" /\ req.handler = "simple.apitools"
    /\ \E answer \in replies : Finish(answer, ApiToolsResult(FetchJson(answer)))

-----------------------------------------------------------------------------
(* src/unnamed/part_001: POST /sse and the connection registry.            *)
(* A client is one POST /sse request; its `res` is named by the client.    *)

SseClients == 1..MaxClients

\* res.write(`data: ${JSON.stringify({jsonrpc, method: 'initialized', params})}\n\n`)
Initialized == "data: initialized"
\* res.write(': keepalive\n\n')
KeepAliveComment == ": keepalive"

\* const connections = new Map(); no /sse request has arrived
SseIdle ==
    /\ connections = <<>>
    /\ stream = [c \in SseClients |-> <<>>]
    /\ timer = [c \in SseClients |-> FALSE]
    /\ phase = [c \in SseClients |-> "new"]
    /\ connId = [c \in SseClients |-> <<>>]
    /\ clock = 0

\* connections.set(connectionId, res)
MapSet(map, k, v) == [x \in DOMAIN map \cup {k} |-> IF x = k THEN v ELSE map[x]]
\* connections.delete(connectionId)
MapDelete(map, k) == [x \in DOMAIN map \ {k} |-> map[x]]

\* the /sse handler: register, write `initialized`, arm the interval
SseConnectSilent(c) ==
    /\ phase[c] = "new"
    /\ connId' = [connId EXCEPT ![c] = NumToStr(clock)]
    /\ connections' = MapSet(connections, NumToStr(clock), c)
    /\ timer' = [timer EXCEPT ![c] = TRUE]
    /\ phase' = [phase EXCEPT ![c] = "open"]
    /\ UNCHANGED <<stream, clock, reqVars>>
SseConnect(c) ==
    /\ phase[c] = "new"
    /\ connId' = [connId EXCEPT ![c] = NumToStr(clock)]
    /\ connections' = MapSet(connections, NumToStr(clock), c)
    /\ stream' = [stream EXCEPT ![c] = Append(@, Initialized)]
    /\ timer' = [timer EXCEPT ![c] = TRUE]
    /\ phase' = [phase EXCEPT ![c] = "open"]
    /\ UNCHANGED <<clock, reqVars>>

\* the setInterval callback of client c: res.write(': keepalive\n\n')
KeepAlive(c) ==
    /\ timer[c]
    /\ Len(stream[c]) <= MaxKeepAlives
    /\ stream' = [stream EXCEPT ![c] = Append(@, KeepAliveComment)]
    /\ UNCHANGED <<connections, timer, phase, connId, clock, reqVars>>

\* req.on('close'): clearInterval(keepAlive); connections.delete(connectionId)
SseCloseLeavesTimer(c) ==
    /\ phase[c] = "open"
    /\ connections' = MapDelete(connections, connId[c])
    /\ phase' = [phase EXCEPT ![c] = "closed"]
    /\ UNCHANGED <<timer, stream, connId, clock, reqVars>>
SseClose(c) ==
    /\ phase[c] = "open"
    /\ timer' = [timer EXCEPT ![c] = FALSE]
    /\ connections' = MapDelete(connections, connId[c])
    /\ phase' = [phase EXCEPT ![c] = "closed"]
    /\ UNCHANGED <<stream, connId, clock, reqVars>>

\* GET /health: { status: 'healthy', ..., connections: connections.size }
Health ==
    /\ pc # "await"
    /\ Answer([handler |-> "sse.health"],
              Http(200, [status |-> "healthy",
                         connections |-> Cardinality(DOMAIN connections)]))

\* a millisecond passes: Date.now() grows
ClockTick ==
    /\ clock < MaxClock
    /\ clock' = clock + 1
    /\ UNCHANGED <<connections, stream, timer, phase, connId, reqVars>>

-----------------------------------------------------------------------------
(* Specifications.                                                         *)

Init ==
    /\ pc = "idle"
    /\ req = NoReq
    /\ calls = <<>>
    /\ reply = NoReply
    /\ res = NoRes
    /\ SseIdle

\* every request handler, against an upstream that answers in every way
Next ==
    \/ RestSummary \/ RestSummaryDone(Replies)
    \/ RestSearch \/ RestSearchDone(Replies)
    \/ RestMemories \/ RestMemoriesDone(Replies)
    \/ HybridSummary \/ HybridSummaryDone(Replies)
    \/ HybridSearch \/ HybridSearchDone(Replies)
    \/ HybridMemories \/ HybridMemoriesDone(Replies)
    \/ RootPost(RpcBodies)
    \/ MessagePost(RpcBodies) \/ MessageDone(Replies)
    \/ StdioCall(ToolCalls) \/ StdioCallDone(Replies)
    \/ ToolsCall(ToolCalls) \/ ToolsCallDone(Replies)
    \/ ApiTools(ApiToolsBodies) \/ ApiToolsDone(Replies)

Spec == Init /\ [][Next]_vars

\* the six summary operations, against every batch the upstream can answer
NextSummary ==
    \/ RestSummary \/ RestSummaryDone(SummaryReplies)
    \/ HybridSummary \/ HybridSummaryDone(SummaryReplies)
    \/ MessagePost(SummaryRpcBodies) \/ MessageDone(SummaryReplies)
    \/ StdioCall(SummaryToolCalls) \/ StdioCallDone(SummaryReplies)
    \/ ToolsCall(SummaryToolCalls) \/ ToolsCallDone(SummaryReplies)
    \/ ApiTools(SummaryApiToolsBodies) \/ ApiToolsDone(SummaryReplies)

SpecSummary == Init /\ [][NextSummary]_vars

\* SSE clients connecting, being kept alive and disconnecting, in any order
NextSse ==
    \/ \E c \in SseClients : SseConnect(c)
    \/ \E c \in SseClients : KeepAlive(c)
    \/ \E c \in SseClients : SseClose(c)
    \/ ClockTick
    \/ Health

SpecSse == Init /\ [][NextSse]_vars

\* POST /message requests that arrive while SSE clients come and go
SseRpcBodies ==
    { [id |-> 7, method |-> "initialize"],
      [id |-> 7, method |-> "resources/list"],
      [id |-> 7, method |-> "tools/call",
       params |-> [name |-> "get_user_memories",
                   arguments |-> [user_id |-> <<"u","1">>]]] }

\* the upstream fails, or answers with an empty batch
SseReplies ==
    { [kind |-> "throw"],
      [kind |-> "json", status |-> 200, data |-> [count |-> 0, memories |-> <<>>]] }

\* the SSE adapter as a whole: POST /sse, its timers and close handlers,
\* and POST /message
NextSseMessage ==
    \/ \E c \in SseClients : SseConnect(c)
    \/ \E c \in SseClients : KeepAlive(c)
    \/ \E c \in SseClients : SseClose(c)
    \/ ClockTick
    \/ MessagePost(SseRpcBodies)
    \/ MessageDone(SseReplies)

SpecSseMessage == Init /\ [][NextSseMessage]_vars

-----------------------------------------------------------------------------
(* The summary text each summary operation puts in its answer.             *)

IsSummaryRequest ==
    /\ pc = "done"
    /\ reply.kind = "json"
    /\ \/ req.handler \in {"rest.summary", "hybrid.summary", "simple.apitools"}
       \/ req.handler = "sse.message" /\ req.body.params.name = "get_memory_summary"
       \/ req.handler \in {"stdio.call", "simple.call"}
            /\ req.body.name = "get_memory_summary"

\* the answer the six summary operations give when their body is `body`
SummaryAnswer(body) ==
    IF req.handler \in {"rest.summary", "hybrid.summary"}
    THEN Http(200, [success |-> TRUE, summary |-> SummaryOrNone(body),
                    totalMemories |-> CountOrZero(reply.data)])
    ELSE IF req.handler = "simple.apitools"
    THEN Http(200, [success |-> TRUE, data |-> body])
    ELSE IF req.handler = "sse.message"
    THEN RpcResult(req.body.id,
                   [content |-> TextContent(MessageSummaryText(body, reply.data))])
    ELSE IF req.handler = "stdio.call"
    THEN Returned([content |-> TextContent(
             StdioSummaryText(UserIdText(req.body.arguments), body, reply.data))])
    ELSE Http(200, [content |-> ToolsCallSummaryText(body, reply.data)])

\* the categories of a batch in the order of their first occurrence
RECURSIVE FirstSeen(_, _)
FirstSeen(memories, seen) ==
    IF memories = <<>> THEN <<>>
    ELSE IF CategoryKey(Head(memories)) \in seen
         THEN FirstSeen(Tail(memories), seen)
         ELSE <<CategoryKey(Head(memories))>>
                  \o FirstSeen(Tail(memories), seen \cup {CategoryKey(Head(memories))})

\* the contents of the records of category c, in batch order
RECURSIVE ContentsIn(_, _)
ContentsIn(memories, c) ==
    IF memories = <<>> THEN <<>>
    ELSE IF CategoryKey(Head(memories)) = c
         THEN <<ContentOf(Head(memories))>> \o ContentsIn(Tail(memories), c)
         ELSE ContentsIn(Tail(memories), c)

\* the block the specification's summary builder renders: one group per
\* category in first-seen order, its lines in batch order
OrderedBody(memories) ==
    LET cats == FirstSeen(memories, {})
    IN  Join([i \in 1..Len(cats) |->
                toUpperCase(cats[i]) \o <<":","\n">>
                    \o Join([j \in 1..Len(ContentsIn(memories, cats[i])) |->
                               <<"-"," ">> \o ContentsIn(memories, cats[i])[j]],
                            <<"\n">>)],
             <<"\n","\n">>)

\* C1: for every batch, every summary operation lists the categories in the
\* order of their first occurrence in the batch and, inside a category, the
\* content lines in the order of the records.
C1_FirstSeenOrder ==
    IsSummaryRequest => res = SummaryAnswer(OrderedBody(reply.data.memories))

ExampleBatch ==
    << [category |-> <<"w","o","r","k">>, content |-> <<"u","s","e","s"," ","G","o">>],
       [category |-> <<"p","r","e","f","s">>,
        content |-> <<"l","i","k","e","s"," ","d","a","r","k"," ","m","o","d","e">>],
       [category |-> <<"w","o","r","k">>, content |-> <<"r","e","m","o","t","e">>] >>

ExampleSummary ==
    <<"W","O","R","K",":","\n",
      "-"," ","u","s","e","s"," ","G","o","\n",
      "-"," ","r","e","m","o","t","e","\n",
      "\n",
      "P","R","E","F","S",":","\n",
      "-"," ","l","i","k","e","s"," ","d","a","r","k"," ","m","o","d","e">>

\* C2: for the batch [{work, "uses Go"}, {prefs, "likes dark mode"},
\* {work, "remote"}] the summary body of every summary operation is exactly
\* "WORK:\n- uses Go\n- remote\n\nPREFS:\n- likes dark mode".
C2_ExampleSummary ==
    (IsSummaryRequest /\ reply.data.memories = ExampleBatch)
        => res = SummaryAnswer(ExampleSummary)

C2_Witness ==
    /\ IsSummaryRequest
    /\ req.handler = "simple.call"
    /\ reply.data.memories = ExampleBatch
    /\ res.status = 200
    /\ res.body.content =
         SummaryHeader \o ExampleSummary
             \o <<"\n","\n","T","o","t","a","l",":"," ","3"," ","m","e","m","o","r","i","e","s">>

-----------------------------------------------------------------------------
(* The SSE connections.                                                    *)

\* C3: on every SSE connection exactly one `initialized` event is written,
\* before any keep-alive comment; what is written afterwards are keep-alive
\* comments, each written by a tick of the interval of that connection.
C3_InitializedFirst ==
    /\ [](\A c \in SseClients :
            /\ phase[c] = "new" => stream[c] = <<>>
            /\ phase[c] # "new" =>
                 /\ Len(stream[c]) >= 1
                 /\ stream[c][1] = Initialized
                 /\ \A i \in 2..Len(stream[c]) : stream[c][i] = KeepAliveComment)
    /\ [][\A c \in SseClients :
            (phase[c] # "new" /\ stream'[c] # stream[c]) => KeepAlive(c)]_vars

C3_Witness ==
    \E c, d \in SseClients :
        /\ c # d
        /\ phase[c] = "open" /\ phase[d] = "open"
        /\ stream[c] = <<Initialized, KeepAliveComment, KeepAliveComment>>
        /\ stream[d] = <<Initialized>>

-----------------------------------------------------------------------------
(* Errors.                                                                 *)

RestRoutes == { "rest.summary", "rest.search", "rest.memories",
                "hybrid.summary", "hybrid.search", "hybrid.memories" }
ToolHandlers == { "stdio.call", "simple.call" }

\* an HTTP answer whose body is {success: false, error}
IsFailureEnvelope(r) ==
    /\ "success" \in DOMAIN r.body
    /\ r.body.success = FALSE
    /\ "error" \in DOMAIN r.body

\* a JSON-RPC answer that holds an error object and no result
IsRpcError(r) ==
    /\ "jsonrpc" \in DOMAIN r.body
    /\ "error" \in DOMAIN r.body
    /\ "result" \notin DOMAIN r.body

\* the caller is told of a failure: an HTTP error status, a JSON-RPC error
\* object, or a tool result with isError: true
IsErrorResult(r) ==
    /\ r.sent
    /\ IF "status" \in DOMAIN r
       THEN r.status >= 400 \/ IsRpcError(r)
       ELSE "isError" \in DOMAIN r.result /\ r.result.isError

\* the request being handled is a search, and its query is empty or missing
IsSearchWithoutQuery ==
    \/ /\ req.handler \in {"rest.search", "hybrid.search"}
       /\ ("arg" \notin DOMAIN req \/ req.arg = <<>>)
    \/ /\ req.handler = "sse.message"
       /\ req.body.method = "tools/call"
       /\ "params" \in DOMAIN req.body
       /\ NameOf(req.body.params) = "search_memories"
       /\ "arguments" \in DOMAIN req.body.params
       /\ ("query" \notin DOMAIN req.body.params.arguments
             \/ req.body.params.arguments.query = <<>>)
    \/ /\ req.handler \in ToolHandlers
       /\ NameOf(req.body) = "search_memories"
       /\ "arguments" \in DOMAIN req.body
       /\ ("query" \notin DOMAIN req.body.arguments \/ req.body.arguments.query = <<>>)

\* C5: in every adapter a search whose query is empty or missing is answered
\* with an invalid-argument error (HTTP 400 and {success: false, error} on
\* the REST routes, an error result on the tool calls) and no upstream call
\* is issued for it.
C5_EmptyQueryRejected ==
    IsSearchWithoutQuery =>
        /\ calls = <<>>
        /\ pc = "done"
        /\ IsErrorResult(res)
        /\ req.handler \in RestRoutes => (res.status = 400 /\ IsFailureEnvelope(res))

\* C6: when the upstream call throws a network error, every REST route
\* answers with HTTP 500 and a body {success: false, error: <message>}.
C6_NetworkErrorEnvelope ==
    (pc = "done" /\ req.handler \in RestRoutes /\ reply.kind = "throw") =>
        /\ res.status = 500
        /\ IsFailureEnvelope(res)

\* C7: when the upstream answers with a non-2xx status, the adapter answers
\* with a failure (HTTP 500 on the REST routes, a JSON-RPC error or an
\* isError result on the tool calls), whatever body came with the status.
C7_UpstreamStatusFails ==
    (pc = "done" /\ reply.kind \in {"json", "text"}
        /\ (reply.status < 200 \/ reply.status > 299)) =>
        /\ IsErrorResult(res)
        /\ req.handler \in RestRoutes => res.status = 500

\* the request being handled is a tools/call that names no known tool
IsUnknownToolCall ==
    \/ /\ req.handler = "sse.message"
       /\ req.body.method = "tools/call"
       /\ ("params" \in DOMAIN req.body => NameOf(req.body.params) \notin KnownTools)
    \/ /\ req.handler \in ToolHandlers
       /\ NameOf(req.body) \notin KnownTools

C9_UnknownIsRpcError ==
    (/\ pc = "done"
     /\ req.handler \in {"sse.message", "hybrid.root"}
     /\ \/ req.body.method \notin {"initialize", "tools/list", "tools/call"}
        \/ /\ req.body.method = "tools/call"
           /\ "params" \in DOMAIN req.body
           /\ NameOf(req.body.params) \notin KnownTools) =>
        /\ res.status = 200
        /\ IsRpcError(res)
        /\ res.body.error.code = -32603

\* C10: an action POST /api/tools does not recognize, or a tool name POST
\* /tools/call does not recognize, is answered with an error response, never
\* with a success envelope.
C10_UnknownIsNotFound ==
    (/\ pc = "done"
     /\ \/ req.handler = "simple.apitools" /\ req.body.action \notin SummaryActions
        \/ req.handler = "simple.call" /\ NameOf(req.body) \notin KnownTools) =>
        /\ res.status >= 400
        /\ ~("success" \in DOMAIN res.body /\ res.body.success)

-----------------------------------------------------------------------------
(* The limit of the upstream call.                                         *)

\* the request being handled has issued its upstream call and is a summary
IssuedSummary ==
    /\ calls # <<>>
    /\ \/ req.handler \in {"rest.summary", "hybrid.summary", "simple.apitools"}
       \/ req.handler = "sse.message" /\ req.body.params.name = "get_memory_summary"
       \/ req.handler \in ToolHandlers /\ req.body.name = "get_memory_summary"

\* the request being handled has issued its upstream call and lists memories
IssuedListing ==
    /\ calls # <<>>
    /\ \/ req.handler \in {"rest.memories", "hybrid.memories"}
       \/ req.handler = "sse.message" /\ req.body.params.name = "get_user_memories"
       \/ req.handler \in ToolHandlers /\ req.body.name = "get_user_memories"

\* the limit the caller sent with the request, as written in a URL: a
\* sequence of one text, or the empty sequence when the caller sent none
CallerLimit ==
    IF req.handler \in RestRoutes
    THEN IF "arg" \in DOMAIN req THEN <<req.arg>> ELSE <<>>
    ELSE LET args == IF req.handler = "sse.message"
                     THEN req.body.params.arguments
                     ELSE req.body.arguments
         IN  IF "limit" \in DOMAIN args
             THEN <<NumToStr(args.limit)>>
             ELSE <<>>

\* C11: a summary operation issues exactly GET /api/recent with limit=50,
\* whatever limit the caller sent; a list-memories operation issues
\* GET /api/recent with the caller's limit when one was sent and with
\* limit=20 when none was sent.
C11_UpstreamLimit ==
    /\ IssuedSummary =>
         /\ Len(calls) = 1
         /\ calls[1].path = "/api/recent"
         /\ calls[1].limit = <<"5","0">>
    /\ IssuedListing =>
         /\ Len(calls) = 1
         /\ calls[1].path = "/api/recent"
         /\ calls[1].limit = IF CallerLimit = <<>> THEN <<"2","0">> ELSE CallerLimit[1]

C11_Witness ==
    /\ pc = "done"
    /\ req.handler = "sse.message"
    /\ req.body = [id |-> 7, method |-> "tools/call",
                    params |-> [name |-> "get_memory_summary",
                                arguments |-> [user_id |-> <<"u","1">>, limit |-> 5]]]
    /\ calls = <<[path |-> "/api/recent", user_id |-> <<"u","1">>, limit |-> <<"5","0">>]>>
    /\ "result" \in DOMAIN res.body

-----------------------------------------------------------------------------
(* The total reported with a summary or a listing.                         *)

EndsWith(text, suffix) ==
    /\ Len(text) >= Len(suffix)
    /\ SubSeq(text, Len(text) - Len(suffix) + 1, Len(text)) = suffix

StartsWith(text, prefix) ==
    /\ Len(text) >= Len(prefix)
    /\ SubSeq(text, 1, Len(prefix)) = prefix

\* the count field of the batch the upstream answered with, 0 when it has none
BatchCount == IF "count" \in DOMAIN reply.data THEN reply.data.count ELSE 0

TotalMemoriesText == <<"T","o","t","a","l"," ","m","e","m","o","r","i","e","s",":"," ">>
TotalText == <<"T","o","t","a","l",":"," ">>
MemoriesSuffix == <<" ","m","e","m","o","r","i","e","s">>

\* C12: every successful answer to a summary or a listing reports as its
\* total (totalMemories, count, or the total line of the text) the count
\* field of the upstream batch, whatever the number of records in memories,
\* and reports 0 when the batch has no count field.
C12_TotalIsCount ==
    (pc = "done" /\ reply.kind = "json" /\ ~IsErrorResult(res)) =>
        /\ req.handler \in {"rest.summary", "hybrid.summary"} =>
             res.body.totalMemories = BatchCount
        /\ req.handler \in {"rest.search", "rest.memories",
                            "hybrid.search", "hybrid.memories"} =>
             res.body.count = BatchCount
        /\ (req.handler = "sse.message"
              /\ req.body.params.name = "get_memory_summary") =>
             EndsWith(res.body.result.content[1].text,
                      TotalMemoriesText \o NumToStr(BatchCount))
        /\ (req.handler = "stdio.call" /\ req.body.name = "get_memory_summary") =>
             EndsWith(res.result.content[1].text,
                      TotalMemoriesText \o NumToStr(BatchCount) \o StdioSummaryTail)
        /\ (req.handler = "simple.call" /\ req.body.name = "get_memory_summary") =>
             EndsWith(res.body.content,
                      TotalText \o NumToStr(BatchCount) \o MemoriesSuffix)
        /\ (req.handler = "simple.call" /\ req.body.name # "get_memory_summary") =>
             \E word \in { <<"F","o","u","n","d">>, <<"R","e","c","e","n","t">> } :
                 StartsWith(res.body.content,
                            word \o <<" ">> \o NumToStr(BatchCount) \o MemoriesSuffix)

-----------------------------------------------------------------------------
(* Summaries of batches without records.                                   *)

\* the records of the batch the upstream answered with
BatchRecords == IF "memories" \in DOMAIN reply.data THEN reply.data.memories ELSE <<>>

\* C13: GET /api/summary/:userId answers a fetched batch with 200 and the
\* summary "No memories found" exactly when the batch has no records (its
\* memories are empty or missing), and with a non-empty categorized block
\* when it has records; the tool-call summaries (POST /message, the stdio
\* server, POST /tools/call) answer a batch whose memories are empty with a
\* success result whose text is the header followed at once by the total line.
C13_EmptyBatchSummary ==
    (pc = "done" /\ reply.kind = "json") =>
        /\ req.handler \in {"rest.summary", "hybrid.summary"} =>
             /\ res.status = 200
             /\ "summary" \in DOMAIN res.body
             /\ res.body.summary = NoMemoriesFound <=> BatchRecords = <<>>
             /\ res.body.summary # <<>>
        /\ (req.handler = "sse.message"
              /\ req.body.params.name = "get_memory_summary"
              /\ "memories" \in DOMAIN reply.data
              /\ reply.data.memories = <<>>) =>
             /\ ~IsErrorResult(res)
             /\ StartsWith(res.body.result.content[1].text,
                           SummaryHeader \o TotalMemoriesLine)
        /\ (req.handler = "stdio.call"
              /\ req.body.name = "get_memory_summary"
              /\ "memories" \in DOMAIN reply.data
              /\ reply.data.memories = <<>>) =>
             /\ ~IsErrorResult(res)
             /\ StartsWith(res.result.content[1].text,
                           StdioSummaryHeader \o UserIdText(req.body.arguments)
                               \o <<":","\n","\n">> \o TotalMemoriesLine)
        /\ (req.handler = "simple.call"
              /\ req.body.name = "get_memory_summary"
              /\ "memories" \in DOMAIN reply.data
              /\ reply.data.memories = <<>>) =>
             /\ ~IsErrorResult(res)
             /\ StartsWith(res.body.content, SummaryHeader \o TotalLine)

-----------------------------------------------------------------------------
(* Building the summary of a fetched batch.                                *)

Contains(text, part) ==
    \E i \in 0..(Len(text) - Len(part)) : SubSeq(text, i + 1, i + Len(part)) = part

\* the summary text of a successful answer to a summary operation
SummaryTextSent ==
    IF req.handler \in {"rest.summary", "hybrid.summary"} THEN res.body.summary
    ELSE IF req.handler = "simple.apitools" THEN res.body.data
    ELSE IF req.handler = "sse.message" THEN res.body.result.content[1].text
    ELSE IF req.handler = "stdio.call" THEN res.result.content[1].text
    ELSE res.body.content

\* C14: once the upstream has answered a summary operation with a JSON body,
\* the operation answers with a success whose summary holds, for every
\* record of the batch, the heading of its category and the line of its
\* content: never an error, never a summary that lacks a category. This is
\* for every batch: categories named like inherited object properties,
\* records without category or content, a body without memories.
C14_SummaryCannotFail ==
    IsSummaryRequest =>
        /\ ~IsErrorResult(res)
        /\ \A i \in 1..Len(BatchRecords) :
             /\ Contains(SummaryTextSent,
                         toUpperCase(CategoryKey(BatchRecords[i])) \o <<":","\n">>)
             /\ Contains(SummaryTextSent, <<"-"," ">> \o ContentOf(BatchRecords[i]))

-----------------------------------------------------------------------------
(* Upstream calls per request.                                             *)

\* the request being handled names a JSON-RPC method or an action that the
\* handler does not dispatch
IsUnknownMethod ==
    \/ /\ req.handler = "sse.message"
       /\ req.body.method \notin {"initialize", "tools/list", "tools/call"}
    \/ /\ req.handler = "simple.apitools"
       /\ req.body.action \notin SummaryActions

\* the upstream call of the request threw, or its body could not be read
UpstreamCallThrew == reply.kind \in {"throw", "text"}

-----------------------------------------------------------------------------
(* The registry and the open connections.                                  *)

\* the SSE connections whose client has connected and not disconnected
OpenConnections == { c \in SseClients : phase[c] = "open" }

\* C16: at every moment the registry holds exactly one entry for each open
\* SSE connection and no other entry, so connections.size, the number
\* GET /health reports, is the number of open SSE connections.
C16_RegistryMatchesOpen ==
    /\ \A c \in OpenConnections :
         Cardinality({ id \in DOMAIN connections : connections[id] = c }) = 1
    /\ \A id \in DOMAIN connections : connections[id] \in OpenConnections
    /\ Cardinality(DOMAIN connections) = Cardinality(OpenConnections)

-----------------------------------------------------------------------------
(* POST /message and the SSE connections.                                  *)

\* C17: a step of the POST /message handler (it takes a request, or it
\* answers one) leaves the registry, every connection's stream, every
\* keep-alive timer and every connection's state as they were; and the
\* answer to a request is the one fixed by the request and the upstream
\* reply, whatever SSE connections are open at the time.
C17_MessageLeavesSse ==
    /\ [][(req' # req \/ res' # res \/ pc' # pc \/ reply' # reply \/ calls' # calls) =>
            /\ connections' = connections
            /\ stream' = stream
            /\ timer' = timer
            /\ phase' = phase
            /\ connId' = connId]_vars
    /\ []((pc = "done" /\ req.handler = "sse.message") =>
            /\ req.body.method = "initialize" =>
                 res = Http(200, [jsonrpc |-> "2.0", id |-> 7,
                                  result |-> InitializeResult])
            /\ req.body.method = "resources/list" =>
                 res = Http(200, [jsonrpc |-> "2.0", id |-> 7,
                                  error |-> [code |-> -32603,
                                             message |-> <<"Unknown method: ",
                                                           "resources/list">>]])
            /\ (req.body.method = "tools/call" /\ reply.kind = "throw") =>
                 res = Http(200, [jsonrpc |-> "2.0", id |-> 7,
                                  error |-> [code |-> -32603,
                                             message |-> <<"fetch failed">>]])
            /\ (req.body.method = "tools/call" /\ reply.kind = "json") =>
                 res = Http(200, [jsonrpc |-> "2.0", id |-> 7,
                                  result |-> [content |->
                                      <<[type |-> "text", text |-> [json |-> <<>>]]>>]]))

\* a tools/call has been answered with its result while two SSE connections
\* are open and registered; their streams hold what POST /sse wrote
C17_Witness ==
    /\ pc = "done"
    /\ req.handler = "sse.message"
    /\ reply.kind = "json"
    /\ "result" \in DOMAIN res.body
    /\ Cardinality(DOMAIN connections) = 2
    /\ \A c \in SseClients : phase[c] = "open" /\ stream[c] = <<Initialized>>

-----------------------------------------------------------------------------
(* JSON-RPC responses.                                                     *)

\* C18: a JSON-RPC request to POST /message or POST / that has been handled
\* has one response; the response holds result or error and not both, and
\* its id is the id of the request, also when that id is 0.
C18_ResponseEchoesId ==
    (pc = "done" /\ req.handler \in {"sse.message", "hybrid.root"}) =>
        /\ res.sent
        /\ "jsonrpc" \in DOMAIN res.body
        /\ ("result" \in DOMAIN res.body) # ("error" \in DOMAIN res.body)
        /\ res.body.id = req.body.id

=============================================================================
